---- MODULE Spec2Model ----
(***************************************************************************)
(* A model of the eBay sold-listings scraper:                              *)
(*   - SoldListingsScraper.scrape     (src/src/scraper/sold_listings.py)   *)
(*   - EbayClient.fetch_page          (src/src/scraper/ebay_client.py)     *)
(*   - RateLimiter                    (src/src/scraper/rate_limiter.py)    *)
(*                                                                         *)
(* Spec        : one scrape() call driving fetch_page, attempt by attempt. *)
(* SpecLimiter : one sequential caller of a RateLimiter, discrete time.    *)
(* SpecThreads : concurrent callers of acquire (coroutines on one event    *)
(*               loop) and of acquire_sync (threads).                      *)
(* SpecAsync   : concurrent callers of acquire only, with fairness.        *)
(* SpecClient  : a caller of EbayClient.fetch_sold_listings, step by step  *)
(*               through fetch_page, on the client's own limiter.          *)
(* SpecParser  : one EbayParser.parse_listings call, item by item.         *)
(***************************************************************************)
EXTENDS Integers, Sequences, FiniteSets, TLC

\* ---------------------------------------------------------------- bounds
MaxPages == 3        \* largest max_pages argument of scrape
MaxRetries == 2      \* largest max_retries of the client
MaxItems == 2        \* most listings the parser returns for one page
NumIds == 3          \* number of distinct listing ids the site serves
MaxCap == 2          \* largest max_listings argument of scrape

Grain == 2           \* token counts are kept in 1/Grain of a token
MaxBurst == 2        \* largest burst_size of a limiter
MaxRate == 2         \* largest refill rate, in 1/Grain token per tick
MaxCalls == 4        \* most fetch_sold_listings calls one caller makes
MaxCards == 2        \* most li.s-card items on a page given to the parser
MaxAnchors == 3      \* most pagination anchors on a page

Ids == 1..NumIds

\* _get_client recreates the session once _request_count reaches this
RotateAfter == 5

VARIABLES
    \* ---- EbayClient object
    max_retries,        \* self.max_retries
    client,             \* self._client: 0 for None, else the session's number
    request_count,      \* self._request_count
    sessions_created,   \* how many httpx.Client objects were constructed
    requests,           \* client.get() calls issued, one token acquired for each
    acquired,           \* acquire_sync calls that returned: tokens taken
    \* ---- fetch_page frame
    attempt,            \* loop variable of "for attempt in range(max_retries)"
    last_error,         \* local last_error
    outcomes,           \* the classifications the attempts of this call got
    \* ---- scrape frame
    pc,                 \* "start", "fetch", "parse", "raised", "done" (a
                        \* ScrapeResult returned), "propagated" (an
                        \* exception left scrape)
    max_pages,          \* argument
    max_listings,       \* argument: <<>> for None, <<n>> for the integer n
    page,               \* loop variable of "for page in range(1, max_pages+1)"
    all_listings,       \* local all_listings
    seen_ids,           \* local seen_ids
    pages_scraped,      \* local pages_scraped
    html,               \* what fetch_sold_listings returned for this page
    exc,                \* what the try block of the last finished iteration
                        \* raised: "None" or the exception's class
    fetch_calls,        \* pages fetch_sold_listings was called for, in order
    first_seen,         \* id -> <<page, pos>> of its first parsed occurrence
    repeated,           \* ids parsed more than once so far
    utc,                \* what datetime.utcnow() returns now, in units of
                        \* the shortest pacing delay
    scraped_at,         \* local scraped_at of scrape
    stamped,            \* page -> the scraped_at parse_listings gave the
                        \* records of that page, 0 while it has none
    extracted,          \* pages whose fetch returned a body that
                        \* parse_listings then returned from
    \* ---- RateLimiter object
    burst_size,         \* self.burst_size
    requests_per_second,\* self.requests_per_second, in 1/Grain token per tick
    tokens,             \* self._tokens, in 1/Grain token
    age,                \* time.monotonic() - self._last_refill, in ticks
    \* ---- one sequential caller of the limiter
    lpc,                \* "idle", or asleep in "sleep_sync" / "sleep_async"
    need,               \* the wait_time the caller went to sleep for, in ticks
    lerr,               \* the exception the caller's last call ended with
    acq_ages,           \* ticks since each of the last acquisitions, newest first
    \* ---- concurrent callers of the limiter
    cpc,                \* caller -> where it is in acquire / acquire_sync
    rem,                \* caller -> ticks its sleep still has to last
    loaded,             \* thread -> the _tokens value it read for `-= 1.0`
    locked,             \* self._lock is held
    waiters,            \* the lock's queue of waiting coroutines
    waited,             \* coroutines that had to queue for the lock
    \* ---- one caller of EbayClient.fetch_sold_listings, and its fetch_page
    fstep,              \* "idle", or the statement fetch_page is at
    fpage,              \* argument page of fetch_sold_listings
    is_retry,           \* argument is_retry of fetch_page
    fresult,            \* how the last call ended: "html" or the exception
    calls,              \* calls made so far
    sent,               \* client.get() calls of the current call
    since,              \* what the call did since its previous client.get()
    base_delay,         \* base of the last _random_delay
    delays,             \* the _random_delay calls made: first page?, attempt, base
    served,             \* responses the current session object has received
    sent_on,            \* session the last request went out on
    blocked,            \* sessions that received a challenge page
    closed,             \* sessions whose close() was called
    \* ---- one EbayParser.parse_listings call
    ppc,                \* "idle", "loop" (in the for loop), "returned"
    items,              \* soup.select("li.s-card")
    item_ix,            \* items the loop has dealt with
    anchors,            \* the pagination anchors of the page has_next_page
                        \* was called on
    has_next,           \* what has_next_page returned
    parsed_listings     \* local listings of parse_listings

clientVars == <<max_retries, client, request_count, sessions_created,
                requests, acquired>>
fetchVars  == <<attempt, last_error, outcomes>>
scrapeVars == <<pc, max_pages, max_listings, page, all_listings, seen_ids,
                pages_scraped, html, exc, fetch_calls, first_seen, repeated,
                utc, scraped_at, stamped,
                   extracted>>
limVars == <<burst_size, requests_per_second, tokens, age>>
seqVars == <<lpc, need, lerr, acq_ages>>
concVars == <<cpc, rem, loaded, locked, waiters, waited>>
callVars == <<fstep, fpage, is_retry, fresult, calls, sent, since, base_delay,
              delays, served, sent_on, blocked, closed>>
parserVars == <<ppc, items, item_ix, parsed_listings, anchors, has_next>>
vars == <<clientVars, fetchVars, scrapeVars, limVars, seqVars, concVars,
          callVars, parserVars>>

NoHtml == [status |-> 0, url_challenge |-> FALSE, pardon |-> FALSE,
           captcha |-> FALSE, short |-> FALSE, s_card |-> FALSE,
           srp_results |-> FALSE]
NotSeen == <<0, 0>>

\* ------------------------------------------------------------ responses
\* What one client.get() can produce: an httpx.HTTPError raised by the
\* transport, or a response with a status code, a final URL and a body.
\* Of URL and body the model keeps what the code reads: the substrings
\* _is_challenge_page looks for, the body length against 10000, and what the
\* parser makes of the body.
StatusCodes == {200, 304, 404, 429, 503}

RECURSIVE SeqsUpTo(_, _)
SeqsUpTo(S, n) ==
    IF n = 0 THEN {<<>>}
    ELSE LET shorter == SeqsUpTo(S, n - 1)
         IN  shorter \cup {Append(s, x) : s \in {t \in shorter : Len(t) = n - 1}, x \in S}

PageContents == SeqsUpTo(Ids, MaxItems)

\* Final URL, status and body text of a response, as far as fetch_page and
\* _is_challenge_page read them.  The code reads URL and body of a 2xx
\* response only, so the other responses are told apart by status alone.
Responses ==
    { [status |-> 200, url_challenge |-> uc, pardon |-> pa, captcha |-> ca,
       short |-> sh, s_card |-> sc, srp_results |-> sr] :
         uc \in BOOLEAN, pa \in BOOLEAN, ca \in BOOLEAN,
         sh \in BOOLEAN, sc \in BOOLEAN, sr \in BOOLEAN }
    \cup
    { [status |-> st, url_challenge |-> FALSE, pardon |-> FALSE,
       captcha |-> FALSE, short |-> TRUE, s_card |-> FALSE,
       srp_results |-> FALSE] : st \in StatusCodes \ {200} }

\* What the parser makes of a returned body: parse_listings raises, or
\* returns the listings in document order and has_next_page answers.  A
\* body the parser finds li.s-card items in contains the text "s-card".
Parses(h) ==
    { [parse_fails |-> TRUE, listings |-> <<>>, next |-> FALSE] } \cup
    { [parse_fails |-> FALSE, listings |-> ls, next |-> nx] :
         ls \in {l \in PageContents : l # <<>> => h.s_card},
         nx \in BOOLEAN }

\* EbayClient._is_challenge_page
IsChallengePage(b) ==
    \/ b.url_challenge
    \/ b.pardon
    \/ b.captcha
    \/ (b.short /\ ~b.s_card /\ ~b.srp_results)

\* httpx.Response.raise_for_status: raises HTTPStatusError unless 2xx
RaisesForStatus(st) == ~(200 <= st /\ st <= 299)

\* How fetch_page classifies a response (lines 152-171)
ClassifyNoChallengeCheck(b) ==
    IF b.status = 429 THEN "rate_limited"
    ELSE IF RaisesForStatus(b.status) THEN "http_error"
    ELSE "ok"

Classify(b) ==
    IF b.status = 429 THEN "rate_limited"
    ELSE IF RaisesForStatus(b.status) THEN "http_error"
    ELSE IF IsChallengePage(b) THEN "challenge"
    ELSE "ok"

\* -------------------------------------------------------------- scrape
\* `if max_listings and len(all_listings) >= max_listings`
CapReached(ml, n) == ml # <<>> /\ ml[1] # 0 /\ n >= ml[1]

\* all_listings[:max_listings]
TruncateOff(ls, ml) == ls

Truncate(ls, ml) == SubSeq(ls, 1, ml[1])

\* EbayParser.parse_listings: the records of a page in document order.  A
\* record keeps the page and position it was parsed at, which stands for the
\* rest of its content (title, price, ...).
ParseListings(parsed, p) ==
    [i \in 1..Len(parsed.listings) |->
        [listing_id |-> parsed.listings[i], page |-> p, pos |-> i]]

\* parse_listings reads the clock once per call (line 108) and hands the
\* value to every record it builds (line 115): the stamp of page p's records
StampedAfter(st, listings, p, now) ==
    IF listings = <<>> THEN st ELSE [st EXCEPT ![p] = now]

\* The deduplication loop of scrape (lines 93-97)
RECURSIVE DedupeNoCheck(_, _, _, _)
DedupeNoCheck(listings, seen, new, i) ==
    IF i > Len(listings) THEN [seen |-> seen, new |-> new]
    ELSE DedupeNoCheck(listings, seen \cup {listings[i].listing_id},
                       Append(new, listings[i]), i + 1)

RECURSIVE DedupeNewestFirst(_, _, _, _)
DedupeNewestFirst(listings, seen, new, i) ==
    IF i > Len(listings) THEN [seen |-> seen, new |-> new]
    ELSE IF listings[i].listing_id \notin seen
         THEN DedupeNewestFirst(listings, seen \cup {listings[i].listing_id},
                                <<listings[i]>> \o new, i + 1)
         ELSE DedupeNewestFirst(listings, seen, new, i + 1)

RECURSIVE Dedupe(_, _, _, _)
Dedupe(listings, seen, new, i) ==
    IF i > Len(listings) THEN [seen |-> seen, new |-> new]
    ELSE IF listings[i].listing_id \notin seen
         THEN Dedupe(listings, seen \cup {listings[i].listing_id},
                     Append(new, listings[i]), i + 1)
         ELSE Dedupe(listings, seen, new, i + 1)

\* pages_scraped after an iteration whose try body got past the fetch:
\* `pages_scraped += 1` (line 100) is reached unless parse_listings raised
PageCountEveryIteration(n, parse_raised) == n + 1

PageCount(n, parse_raised) == IF parse_raised THEN n ELSE n + 1

\* Which except clause of scrape ends the loop (lines 118-124)
ExceptBreaksNever(e) == FALSE

ExceptBreaksAlways(e) == TRUE

ExceptBreaks(e) == e = "ChallengePageError"

\* The classes the two except clauses of scrape catch between them:
\* `except Exception` takes every subclass of Exception
CaughtOnlyChallenge(e) == e = "ChallengePageError"

Caught(e) == e \in {"ChallengePageError", "HTTPError", "Exception"}

\* The first and the repeated occurrences of ids, kept beside the code's own
\* bookkeeping to state what "first encountered" means.
Positions(ls, id) == {k \in 1..Len(ls) : ls[k] = id}
MinOf(S) == CHOOSE m \in S : \A n \in S : m <= n

FirstSeenAfter(fs, ls, p) ==
    [id \in Ids |->
        IF fs[id] # NotSeen THEN fs[id]
        ELSE IF Positions(ls, id) # {} THEN <<p, MinOf(Positions(ls, id))>>
        ELSE NotSeen]

RepeatedAfter(rp, fs, ls) ==
    rp \cup {id \in Ids : \/ Cardinality(Positions(ls, id)) > 1
                          \/ (fs[id] # NotSeen /\ Positions(ls, id) # {})}

\* What fetch_page raises after its loop (lines 178-180): `if last_error:
\* raise last_error`, else ChallengePageError("Max retries exceeded")
RaisedAfterLoopGeneric(le) == IF le # "None" THEN le ELSE "Exception"

RaisedAfterLoop(le) == IF le # "None" THEN le ELSE "ChallengePageError"

\* fetch_page's locals once the call is over
FrameGone == attempt' = 0 /\ last_error' = "None" /\ outcomes' = {}

\* `for page in range(1, max_pages + 1)`: the next iteration calls
\* fetch_sold_listings(query, page), which enters fetch_page.
LoopNextOneMore ==
    IF page < max_pages + 1
    THEN /\ page' = page + 1
         /\ fetch_calls' = Append(fetch_calls, page + 1)
         /\ attempt' = 0
         /\ last_error' = "None"
         /\ outcomes' = {}
         /\ pc' = "fetch"
    ELSE /\ pc' = "done"
         /\ UNCHANGED <<page, fetch_calls>>
         /\ FrameGone

LoopNext ==
    IF page < max_pages
    THEN /\ page' = page + 1
         /\ fetch_calls' = Append(fetch_calls, page + 1)
         /\ attempt' = 0
         /\ last_error' = "None"
         /\ outcomes' = {}
         /\ pc' = "fetch"
    ELSE /\ pc' = "done"
         /\ UNCHANGED <<page, fetch_calls>>
         /\ FrameGone

LoopBreak ==
    /\ pc' = "done"
    /\ UNCHANGED <<page, fetch_calls>>
    /\ FrameGone

\* No fetch_sold_listings call made yet
InitCall ==
    /\ fstep = "idle"
    /\ fpage = 0
    /\ is_retry = FALSE
    /\ fresult = "None"
    /\ calls = 0
    /\ sent = 0
    /\ since = <<>>
    /\ base_delay = 0
    /\ delays = {}
    /\ served = 0
    /\ sent_on = 0
    /\ blocked = {}
    /\ closed = {}

\* No parse_listings call made yet
InitParser ==
    /\ ppc = "idle"
    /\ items = <<>>
    /\ item_ix = 0
    /\ parsed_listings = <<>>
    /\ anchors = <<>>
    /\ has_next = FALSE

InitScrape ==
    /\ InitCall
    /\ InitParser
    /\ max_retries \in 0..MaxRetries
    /\ client = 0
    /\ request_count = 0
    /\ sessions_created = 0
    /\ requests = 0
    /\ acquired = 0
    /\ attempt = 0
    /\ last_error = "None"
    /\ outcomes = {}
    /\ pc = "start"
    /\ max_pages \in 1..MaxPages
    /\ max_listings \in {<<>>} \cup {<<n>> : n \in 0..MaxCap}
    /\ page = 0
    /\ all_listings = <<>>
    /\ seen_ids = {}
    /\ pages_scraped = 0
    /\ html = NoHtml
    /\ exc = "None"
    /\ fetch_calls = <<>>
    /\ first_seen = [id \in Ids |-> NotSeen]
    /\ repeated = {}
    /\ utc = 1
    /\ scraped_at = 0
    /\ stamped = [p \in 1..MaxPages |-> 0]
    /\ extracted = {}

\* scrape, lines 78-85: locals initialised, the loop entered
ScrapeStart ==
    /\ pc = "start"
    /\ scraped_at' = utc
    /\ LoopNext
    /\ UNCHANGED <<limVars, seqVars, concVars, callVars, parserVars>>
    /\ UNCHANGED <<clientVars, max_pages, max_listings, all_listings, seen_ids,
                   pages_scraped, html, exc, first_seen, repeated, utc,
                   stamped,
                   extracted>>

\* EbayClient._get_client
NeedNewClientLate == client = 0 \/ request_count > RotateAfter

NeedNewClient == client = 0 \/ request_count >= RotateAfter

\* One iteration of fetch_page's retry loop (lines 129-176)
FetchAttempt ==
    /\ pc = "fetch"
    /\ attempt < max_retries
    /\ acquired' = acquired + 1
    /\ requests' = requests + 1
    /\ utc' = utc + 1      \* _random_delay has slept
    /\ sessions_created' = IF NeedNewClient THEN sessions_created + 1
                           ELSE sessions_created
    /\ LET cl == IF NeedNewClient THEN sessions_created + 1 ELSE client
           rc == IF NeedNewClient THEN 0 ELSE request_count
       IN
       \/ \* client.get raises httpx.HTTPError (connect error, timeout, ...)
          /\ client' = cl
          /\ request_count' = rc
          /\ last_error' = "HTTPError"
          /\ outcomes' = outcomes \cup {"http_error"}
          /\ attempt' = attempt + 1
          /\ UNCHANGED <<pc, html>>
       \/ \* a response that is not returned: 429, error status, challenge
          \E c \in {Classify(h) : h \in Responses} \ {"ok"} :
            /\ outcomes' = outcomes \cup {c}
            /\ attempt' = attempt + 1
            /\ UNCHANGED <<pc, html>>
            /\ CASE c = "rate_limited" ->
                      /\ client' = cl
                      /\ request_count' = rc + 1
                      /\ UNCHANGED last_error
                 [] c = "http_error" ->
                      /\ client' = cl
                      /\ request_count' = rc + 1
                      /\ last_error' = "HTTPError"
                 [] c = "challenge" ->
                      \* self.close(): the session is dropped
                      /\ client' = 0
                      /\ request_count' = 0
                      /\ last_error' = "ChallengePageError"
       \/ \* a response whose body is returned
          \E h \in {r \in Responses : Classify(r) = "ok"} :
            /\ outcomes' = outcomes \cup {"ok"}
            /\ client' = cl
            /\ request_count' = rc + 1
            /\ html' = h
            /\ pc' = "parse"
            /\ UNCHANGED <<attempt, last_error>>
    /\ UNCHANGED <<max_retries, max_pages, max_listings, page, all_listings,
                   seen_ids, pages_scraped, exc, fetch_calls, first_seen,
                   repeated, scraped_at, stamped,
                   extracted>>
    /\ UNCHANGED <<limVars, seqVars, concVars, callVars, parserVars>>

\* fetch_page after the loop (lines 178-180): the call raises
FetchExhausted ==
    /\ pc = "fetch"
    /\ attempt >= max_retries
    /\ exc' = RaisedAfterLoop(last_error)
    /\ pc' = "raised"
    /\ UNCHANGED <<limVars, seqVars, concVars, callVars, parserVars>>
    /\ UNCHANGED <<clientVars, fetchVars, max_pages, max_listings, page,
                   all_listings, seen_ids, pages_scraped, html, fetch_calls,
                   first_seen, repeated, utc, scraped_at, stamped,
                   extracted>>

\* scrape's try body after the fetch (lines 90-116)
ScrapePage ==
    /\ pc = "parse"
    /\ html' = NoHtml
    /\ \E parsed \in Parses(html) :
         IF parsed.parse_fails
         THEN /\ exc' = "Exception"
              /\ pc' = "raised"
              /\ FrameGone
              /\ pages_scraped' = PageCount(pages_scraped, TRUE)
              /\ UNCHANGED <<all_listings, seen_ids, first_seen,
                             repeated, page, fetch_calls, stamped,
                   extracted>>
         ELSE LET listings == ParseListings(parsed, page)
                  d == Dedupe(listings, seen_ids, <<>>, 1)
                  acc == all_listings \o d.new
              IN  /\ seen_ids' = d.seen
                  /\ pages_scraped' = PageCount(pages_scraped, FALSE)
                  /\ extracted' = extracted \cup {page}
                  /\ first_seen' = FirstSeenAfter(first_seen, parsed.listings, page)
                  /\ repeated' = RepeatedAfter(repeated, first_seen, parsed.listings)
                  /\ exc' = "None"
                  /\ stamped' = StampedAfter(stamped, listings, page, utc)
                  /\ IF CapReached(max_listings, Len(acc))
                     THEN /\ all_listings' = Truncate(acc, max_listings)
                          /\ LoopBreak
                     ELSE /\ all_listings' = acc
                          /\ IF parsed.next THEN LoopNext ELSE LoopBreak
    /\ UNCHANGED <<clientVars, max_pages, max_listings, utc, scraped_at>>
    /\ UNCHANGED <<limVars, seqVars, concVars, callVars, parserVars>>

\* The caller interrupts the call between two pages.  scrape takes no
\* argument and reads no flag to stop on, so what reaches it is the
\* KeyboardInterrupt of an interrupt signal, raised in the try body before
\* the next page's first request.
ScrapeAbort ==
    /\ pc = "fetch"
    /\ attempt = 0
    /\ page >= 2
    /\ exc' = "KeyboardInterrupt"
    /\ pc' = "raised"
    /\ UNCHANGED <<limVars, seqVars, concVars, callVars, parserVars>>
    /\ UNCHANGED <<clientVars, fetchVars, max_pages, max_listings, page,
                   all_listings, seen_ids, pages_scraped, html, fetch_calls,
                   first_seen, repeated, utc, scraped_at, stamped,
                   extracted>>

\* An exception that leaves scrape takes the call's frame with it
Propagate ==
    /\ pc' = "propagated"
    /\ UNCHANGED <<page, fetch_calls>>
    /\ FrameGone

\* scrape's except clauses (lines 118-124)
ScrapeExcept ==
    /\ pc = "raised"
    /\ IF ~Caught(exc) THEN Propagate
       ELSE IF ExceptBreaks(exc) THEN LoopBreak ELSE LoopNext
    /\ UNCHANGED <<limVars, seqVars, concVars, callVars, parserVars>>
    /\ UNCHANGED <<clientVars, max_pages, max_listings, all_listings, seen_ids,
                   pages_scraped, html, exc, first_seen, repeated, utc,
                   scraped_at, stamped,
                   extracted>>

\* ---------------------------------------------------------- RateLimiter
\* Time is counted in ticks and tokens in 1/Grain of a token, so that
\* requests_per_second = r stands for r/Grain token per tick.  Of the clock
\* the limiter reads only now - _last_refill, which the model keeps as `age`.
\* An age of MaxAge stands for MaxAge ticks or more: at a rate above 0 that
\* long a pause fills the bucket whatever it held.
RateSet == (0 - 1)..MaxRate
MaxAge == MaxBurst * Grain
LogLen == MaxBurst + 1
MinTokens == 0 - MaxBurst * Grain

Coros == {"c1", "c2", "c3"}
Threads == {"t1", "t2"}
Procs == Coros \cup Threads

Min2(a, b) == IF a <= b THEN a ELSE b
Max2(a, b) == IF a >= b THEN a ELSE b

\* RateLimiter._refill: the new value of _tokens
RefilledNoCap(tok, elapsed, rate, burst) == tok + elapsed * rate

Refilled(tok, elapsed, rate, burst) ==
    Min2(burst * Grain, tok + elapsed * rate)

\* `if self._tokens >= 1.0`
HasTokenAlways(tok) == TRUE

HasToken(tok) == tok >= Grain

\* wait_time = (1.0 - self._tokens) / self.requests_per_second, for a rate
\* above 0: the ticks a sleep of at least wait_time lasts
WaitTicksFixed(tok, rate) == 1

WaitTicks(tok, rate) == (Grain - tok + rate - 1) \div rate

Older(ages) == [i \in 1..Len(ages) |-> Min2(ages[i] + 1, MaxAge)]
Logged(ages) == SubSeq(<<0>> \o ages, 1, Min2(Len(ages) + 1, LogLen))

\* RateLimiter.__post_init__
InitLimiter ==
    /\ tokens = burst_size * Grain
    /\ age = 0

InitSeq ==
    /\ lpc = "idle"
    /\ need = 0
    /\ lerr = "None"
    /\ acq_ages = <<>>

InitConc ==
    /\ cpc = [p \in Procs |-> "idle"]
    /\ rem = [p \in Procs |-> 0]
    /\ loaded = [p \in Threads |-> 0]
    /\ locked = FALSE
    /\ waiters = <<>>
    /\ waited = {}

\* EbayClient.__init__: the client's own limiter has burst_size 1
ClientLimiter ==
    /\ burst_size = 1
    /\ requests_per_second = 1
    /\ InitLimiter
    /\ InitSeq
    /\ InitConc

\* A scraper that is constructed and not used
IdleScraper ==
    /\ InitScrape
    /\ max_retries = MaxRetries
    /\ max_pages = MaxPages
    /\ max_listings = <<>>

\* --------------------------------------------- one sequential caller
\* The monotonic clock advances by one tick
LimTick ==
    /\ age' = Min2(age + 1, MaxAge)
    /\ acq_ages' = Older(acq_ages)
    /\ UNCHANGED <<burst_size, requests_per_second, tokens, lpc, need, lerr>>
    /\ UNCHANGED <<clientVars, fetchVars, scrapeVars, concVars, callVars,
                   parserVars>>

\* A call of _refill by itself
LimRefill ==
    /\ lpc = "idle"
    /\ tokens >= MinTokens
    /\ tokens' = Refilled(tokens, age, requests_per_second, burst_size)
    /\ age' = 0
    /\ UNCHANGED <<burst_size, requests_per_second, seqVars>>
    /\ UNCHANGED <<clientVars, fetchVars, scrapeVars, concVars, callVars,
                   parserVars>>

\* One iteration of the `while True` loop of acquire_sync ("sync") or of
\* acquire ("async", whose lock a lone caller always finds free): entered by
\* a call, or re-entered when the sleep is over.
LimIteration(variant) ==
    /\ \/ lpc = "idle"
       \/ lpc = "sleep_" \o variant /\ age >= need
    /\ tokens >= MinTokens
    /\ age' = 0
    /\ LET t == Refilled(tokens, age, requests_per_second, burst_size) IN
       IF HasToken(t)
       THEN /\ tokens' = t - Grain
            /\ acq_ages' = Logged(acq_ages)
            /\ lpc' = "idle"
            /\ need' = 0
            /\ lerr' = "None"
       ELSE /\ tokens' = t
            /\ UNCHANGED acq_ages
            /\ CASE requests_per_second = 0 ->
                      \* the division raises
                      /\ lpc' = "idle"
                      /\ need' = 0
                      /\ lerr' = "ZeroDivisionError"
                 [] requests_per_second < 0 /\ variant = "sync" ->
                      \* time.sleep refuses a negative length
                      /\ lpc' = "idle"
                      /\ need' = 0
                      /\ lerr' = "ValueError"
                 [] requests_per_second < 0 /\ variant = "async" ->
                      \* asyncio.sleep of a negative delay yields and returns
                      /\ lpc' = "sleep_async"
                      /\ need' = 0
                      /\ lerr' = "None"
                 [] requests_per_second > 0 ->
                      /\ lpc' = "sleep_" \o variant
                      /\ need' = WaitTicks(t, requests_per_second)
                      /\ lerr' = "None"
    /\ UNCHANGED <<burst_size, requests_per_second>>
    /\ UNCHANGED <<clientVars, fetchVars, scrapeVars, concVars, callVars,
                   parserVars>>

LimAcquireSync == LimIteration("sync")

LimAcquire == LimIteration("async")

NextLimiter ==
    \/ LimTick
    \/ LimRefill
    \/ LimAcquireSync
    \/ LimAcquire

InitSpecLimiter ==
    /\ IdleScraper
    /\ burst_size \in 1..MaxBurst
    /\ requests_per_second \in RateSet
    /\ InitLimiter
    /\ InitSeq
    /\ InitConc

SpecLimiter == InitSpecLimiter /\ [][NextLimiter]_vars

\* The same caller on a clock that keeps advancing and a scheduler that
\* keeps running it: time.sleep and asyncio.sleep return once their time is
\* over, and the loop then goes on with its next iteration.
SpecLimiterFair ==
    /\ SpecLimiter
    /\ WF_vars(LimTick)
    /\ WF_vars(LimAcquireSync)
    /\ WF_vars(LimAcquire)

\* ------------------------------------------------- concurrent callers
\* Coroutines of one event loop call acquire; threads call acquire_sync.
\* A coroutine runs from one await to the next without another coroutine
\* in between, so what it does between two awaits is one step.  A thread
\* can be preempted between any two statements of acquire_sync: its call of
\* _refill, its test of _tokens and the read and the write of
\* `self._tokens -= 1.0` are steps of their own.
ConcTick ==
    /\ age' = Min2(age + 1, MaxAge)
    /\ rem' = [p \in Procs |-> Max2(rem[p] - 1, 0)]
    /\ UNCHANGED <<burst_size, requests_per_second, tokens, cpc, loaded,
                   locked, waiters, waited>>
    /\ UNCHANGED <<clientVars, fetchVars, scrapeVars, seqVars, callVars,
                   parserVars>>

\* self._lock once `async with self._lock` is left
LockKept == TRUE

LockAfterReturn == FALSE

\* acquire, lines 35-42, run by the holder of the lock: one iteration, which
\* returns (and releases the lock) or goes to sleep with the lock held
CoroIteration(p) ==
    LET t == Refilled(tokens, age, requests_per_second, burst_size) IN
    /\ age' = 0
    /\ IF HasToken(t)
       THEN /\ tokens' = t - Grain
            /\ cpc' = [cpc EXCEPT ![p] = "done"]
            /\ locked' = LockAfterReturn
            /\ UNCHANGED rem
       ELSE /\ tokens' = t
            /\ cpc' = [cpc EXCEPT ![p] = "sleeping"]
            /\ rem' = [rem EXCEPT ![p] = WaitTicks(t, requests_per_second)]
            /\ locked' = TRUE
    /\ UNCHANGED <<burst_size, requests_per_second, loaded>>
    /\ UNCHANGED <<clientVars, fetchVars, scrapeVars, seqVars, callVars,
                   parserVars>>

\* acquire is called (line 34): asyncio.Lock.acquire takes a free lock with
\* no waiter at once, and queues the caller otherwise
CoroCall(p) ==
    /\ cpc[p] = "idle"
    /\ IF ~locked /\ waiters = <<>>
       THEN /\ CoroIteration(p)
            /\ UNCHANGED <<waiters, waited>>
       ELSE /\ cpc' = [cpc EXCEPT ![p] = "waiting"]
            /\ waiters' = Append(waiters, p)
            /\ waited' = waited \cup {p}
            /\ UNCHANGED <<limVars, rem, loaded, locked>>
            /\ UNCHANGED <<clientVars, fetchVars, scrapeVars, seqVars, callVars,
                   parserVars>>

\* the released lock goes to the first waiter, which then runs the loop
CoroGranted(p) ==
    /\ cpc[p] = "waiting"
    /\ ~locked
    /\ waiters # <<>>
    /\ Head(waiters) = p
    /\ waiters' = Tail(waiters)
    /\ CoroIteration(p)
    /\ UNCHANGED waited

\* asyncio.sleep(wait_time) is over (line 42): the loop goes round
CoroWake(p) ==
    /\ cpc[p] = "sleeping"
    /\ rem[p] = 0
    /\ CoroIteration(p)
    /\ UNCHANGED <<waiters, waited>>

ThreadStep(p, to) ==
    /\ cpc' = [cpc EXCEPT ![p] = to]
    /\ UNCHANGED <<burst_size, requests_per_second, locked, waiters, waited>>
    /\ UNCHANGED <<clientVars, fetchVars, scrapeVars, seqVars, callVars,
                   parserVars>>

\* acquire_sync is called (line 44)
ThreadCall(p) ==
    /\ cpc[p] = "idle"
    /\ ThreadStep(p, "refill")
    /\ UNCHANGED <<tokens, age, rem, loaded>>

\* self._refill() (line 47)
ThreadRefill(p) ==
    /\ cpc[p] = "refill"
    /\ tokens' = Refilled(tokens, age, requests_per_second, burst_size)
    /\ age' = 0
    /\ ThreadStep(p, "check")
    /\ UNCHANGED <<rem, loaded>>

\* `if self._tokens >= 1.0`, else wait_time and time.sleep (lines 48-52)
ThreadCheck(p) ==
    /\ cpc[p] = "check"
    /\ IF HasToken(tokens)
       THEN /\ ThreadStep(p, "load")
            /\ UNCHANGED rem
       ELSE /\ ThreadStep(p, "sleep")
            /\ rem' = [rem EXCEPT ![p] = WaitTicks(tokens, requests_per_second)]
    /\ UNCHANGED <<tokens, age, loaded>>

\* `self._tokens -= 1.0` (line 49): the read
ThreadLoad(p) ==
    /\ cpc[p] = "load"
    /\ loaded' = [loaded EXCEPT ![p] = tokens]
    /\ ThreadStep(p, "store")
    /\ UNCHANGED <<tokens, age, rem>>

\* `self._tokens -= 1.0` (line 49): the write, and the return
ThreadStore(p) ==
    /\ cpc[p] = "store"
    /\ tokens' = loaded[p] - Grain
    /\ ThreadStep(p, "done")
    /\ UNCHANGED <<age, rem, loaded>>

\* time.sleep(wait_time) is over (line 52): the loop goes round
ThreadWake(p) ==
    /\ cpc[p] = "sleep"
    /\ rem[p] = 0
    /\ ThreadStep(p, "refill")
    /\ UNCHANGED <<tokens, age, rem, loaded>>

InitSpecConc ==
    /\ IdleScraper
    /\ burst_size \in 1..MaxBurst
    /\ requests_per_second \in 1..MaxRate
    /\ InitLimiter
    /\ InitSeq
    /\ InitConc

NextThreads ==
    \/ ConcTick
    \/ \E p \in Coros : CoroCall(p)
    \/ \E p \in Coros : CoroGranted(p)
    \/ \E p \in Coros : CoroWake(p)
    \/ \E p \in Threads : ThreadCall(p)
    \/ \E p \in Threads : ThreadRefill(p)
    \/ \E p \in Threads : ThreadCheck(p)
    \/ \E p \in Threads : ThreadLoad(p)
    \/ \E p \in Threads : ThreadStore(p)
    \/ \E p \in Threads : ThreadWake(p)

SpecThreads == InitSpecConc /\ [][NextThreads]_vars

NextAsync ==
    \/ ConcTick
    \/ \E p \in Coros : CoroCall(p)
    \/ \E p \in Coros : CoroGranted(p)
    \/ \E p \in Coros : CoroWake(p)

\* Sleeps end (the clock advances) and the event loop runs every coroutine
\* that is ready to run; nothing obliges a caller to call.
SpecAsync ==
    /\ InitSpecConc
    /\ [][NextAsync]_vars
    /\ WF_vars(ConcTick)
    /\ \A p \in Coros : WF_vars(CoroGranted(p) \/ CoroWake(p))

Next ==
    \/ ScrapeStart
    \/ FetchAttempt
    \/ FetchExhausted
    \/ ScrapePage
    \/ ScrapeExcept
    \/ ScrapeAbort

Init == InitScrape /\ ClientLimiter

Spec == Init /\ [][Next]_vars

\* The same call on an interpreter that keeps running it: every sleep is
\* finite and every request has a timeout, so the statement the call is at
\* is eventually executed.
\* The call is made without a cap or with the largest one.
InitFair == Init /\ max_listings \in {<<>>, <<MaxCap>>}

SpecFair == InitFair /\ [][Next]_vars /\ WF_vars(Next)

\* ------------------------------------------------------------- parser
\* An li.s-card item, as far as _parse_card_item reads it:
\*   id    : the data-listingid attribute is there and not empty
\*   title : "none"        no .s-card__title element
\*           "empty"       _clean_title leaves nothing
\*           "placeholder" the cleaned title is "Shop on eBay"
\*           "text"        any other title
\*   url   : there is an a.s-card__link with a non-empty href
\*   sold  : "none"   no text node contains "Sold"
\*           "inside" text nodes contain "Sold", none starts with it
\*           "starts" a text node, stripped, starts with "Sold"
\*   price : "none"   no .s-card__price element, or one without text
\*           "bad"    text that float() refuses once cleaned
\*           "number" text that cleans to a number
\*   raises: reading the item raises an exception
CardItems ==
    { [id |-> i, title |-> t, url |-> u, sold |-> so, price |-> pr,
       raises |-> FALSE] :
         i \in BOOLEAN, t \in {"none", "empty", "placeholder", "text"},
         u \in BOOLEAN, so \in {"none", "inside", "starts"},
         pr \in {"none", "bad", "number"} }
    \cup
    { [id |-> TRUE, title |-> "text", url |-> TRUE, sold |-> "starts",
       price |-> "number", raises |-> TRUE] }

\* EbayParser._parse_price: None or a float
ParsePrice(pr) == IF pr = "number" THEN <<pr>> ELSE <<>>

\* EbayParser._parse_card_item: <<>> for None, else the record, which keeps
\* the item's position on the page for its content
ParseCardItemAnySold(item, pos) ==
    IF ~item.id THEN <<>>
    ELSE IF item.title = "none" THEN <<>>
    ELSE IF item.title = "empty" \/ item.title = "placeholder" THEN <<>>
    ELSE IF ~item.url THEN <<>>
    ELSE IF ParsePrice(item.price) = <<>> THEN <<>>
    ELSE <<[pos |-> pos, title |-> item.title, sold |-> item.sold,
            price |-> item.price]>>

ParseCardItem(item, pos) ==
    IF ~item.id THEN <<>>
    ELSE IF item.title = "none" THEN <<>>
    ELSE IF item.title = "empty" \/ item.title = "placeholder" THEN <<>>
    ELSE IF ~item.url THEN <<>>
    ELSE IF item.sold # "starts" THEN <<>>
    ELSE IF ParsePrice(item.price) = <<>> THEN <<>>
    ELSE <<[pos |-> pos, title |-> item.title, sold |-> item.sold,
            price |-> item.price]>>

\* parse_listings is called (lines 106-111): the items are selected
ParserCall ==
    /\ ppc = "idle"
    /\ items' \in SeqsUpTo(CardItems, MaxCards)
    /\ item_ix' = 0
    /\ parsed_listings' = <<>>
    /\ ppc' = "loop"
    /\ UNCHANGED <<anchors, has_next>>
    /\ UNCHANGED <<clientVars, fetchVars, scrapeVars, limVars, seqVars,
                   concVars, callVars>>

\* One iteration of `for item in items` (lines 113-120)
ParserItem ==
    /\ ppc = "loop"
    /\ item_ix < Len(items)
    /\ item_ix' = item_ix + 1
    /\ LET item == items[item_ix + 1] IN
       parsed_listings' =
          IF item.raises THEN parsed_listings     \* except Exception: continue
          ELSE parsed_listings \o ParseCardItem(item, item_ix + 1)
    /\ UNCHANGED <<ppc, items, anchors, has_next>>
    /\ UNCHANGED <<clientVars, fetchVars, scrapeVars, limVars, seqVars,
                   concVars, callVars>>

\* `return listings` (line 122)
ParserReturn ==
    /\ ppc = "loop"
    /\ item_ix = Len(items)
    /\ ppc' = "returned"
    /\ UNCHANGED <<items, item_ix, parsed_listings, anchors, has_next>>
    /\ UNCHANGED <<clientVars, fetchVars, scrapeVars, limVars, seqVars,
                   concVars, callVars>>

\* The <a> elements of a page that has_next_page's selectors can match, in
\* document order.  next: the element matches "a.pagination__next,
\* a[aria-label*='next'], a[rel='next']"; entry: it has the class
\* pagination__item; disabled: its class list holds "disabled".
PageAnchors ==
    [next : BOOLEAN, entry : BOOLEAN, disabled : BOOLEAN]
        \ {a \in [next : BOOLEAN, entry : BOOLEAN, disabled : BOOLEAN] :
              ~a.next /\ ~a.entry}

\* EbayParser.has_next_page (lines 210-216): select_one gives the first
\* element in document order that matches
HasNextPageEitherSignal(links) ==
    \/ \E i \in 1..Len(links) : links[i].next /\ ~links[i].disabled
    \/ Cardinality({i \in 1..Len(links) : links[i].entry}) > 1

HasNextPage(links) ==
    LET nexts == {i \in 1..Len(links) : links[i].next} IN
    IF nexts # {}
    THEN ~links[MinOf(nexts)].disabled
    ELSE Cardinality({i \in 1..Len(links) : links[i].entry}) > 1

\* has_next_page is called on a page and returns
HasNextPageCall ==
    /\ ppc = "idle"
    /\ anchors' \in SeqsUpTo(PageAnchors, MaxAnchors)
    /\ has_next' = HasNextPage(anchors')
    /\ ppc' = "has_next_page"
    /\ UNCHANGED <<items, item_ix, parsed_listings>>
    /\ UNCHANGED <<clientVars, fetchVars, scrapeVars, limVars, seqVars,
                   concVars, callVars>>

NextParser ==
    \/ ParserCall
    \/ ParserItem
    \/ ParserReturn
    \/ HasNextPageCall

InitSpecParser ==
    /\ IdleScraper
    /\ ClientLimiter

SpecParser == InitSpecParser /\ [][NextParser]_vars

\* ------------------------------------------- a caller of the client
\* fetch_sold_listings(query, page) and the fetch_page call it makes, one
\* statement group at a time: the token, the pacing delay, then the request
\* with everything that follows it up to `continue` or `return`.

\* `is_retry = page > 1` (fetch_sold_listings)
IsRetry(pg) == pg > 1

\* The base fetch_page passes to _random_delay (lines 134-138), in seconds
BaseDelay(att, retry) ==
    IF att > 0 \/ retry THEN 5 + att * 3 ELSE 2

\* The order of an attempt's statements before the response is handled
StepAfterNoDelay(st) == "request"

StepAfter(st) ==
    CASE st = "acquire" -> "delay"
      [] st = "delay" -> "request"

\* `for attempt in range(self.max_retries)`: the loop variable after an
\* attempt that ended in `continue` with classification c
NextAttemptFree429(att, c) == IF c = "rate_limited" THEN att ELSE att + 1

NextAttempt(att, c) == att + 1

\* The loop head: another attempt, or the statements after the loop
LoopHead(att) == IF att < max_retries THEN "acquire" ELSE "exhausted"

\* acquire_sync on the client's limiter, from call to return: refill, and
\* if that leaves less than a token, sleep wait_time and refill again
AcquireSyncResult(tok, elapsed, rate, burst) ==
    LET t == Refilled(tok, elapsed, rate, burst) IN
    IF HasToken(t) THEN t - Grain
    ELSE Refilled(t, WaitTicks(t, rate), rate, burst) - Grain

\* self._client after the close() of the challenge branch (line 165)
ClientKeptAfterChallenge(cl) == cl

ClientAfterChallenge(cl) == 0

\* The sessions closed by `if self._client is not None:
\* self._client.close()`, in _get_client (lines 78-79) and in close
\* (lines 195-196)
ClosesNothing(cl) == {}

Closes(cl) == IF cl # 0 THEN {cl} ELSE {}

\* The session objects created and not closed
Open == (1..sessions_created) \ closed

\* fetch_sold_listings is called and fetch_page entered
ClientCall ==
    /\ fstep = "idle"
    /\ calls < MaxCalls
    /\ calls' = calls + 1
    /\ \E pg \in 1..MaxPages :
         /\ fpage' = pg
         /\ is_retry' = IsRetry(pg)
    /\ attempt' = 0
    /\ last_error' = "None"
    /\ outcomes' = {}
    /\ sent' = 0
    /\ since' = <<>>
    /\ fresult' = "None"
    /\ fstep' = LoopHead(0)
    /\ UNCHANGED <<base_delay, delays, served, sent_on, blocked, closed>>
    /\ UNCHANGED <<clientVars, scrapeVars, limVars, seqVars, concVars,
                   parserVars>>

\* self.rate_limiter.acquire_sync() (line 131)
ClientAcquire ==
    /\ fstep = "acquire"
    /\ tokens' = AcquireSyncResult(tokens, age, requests_per_second, burst_size)
    /\ age' = 0
    /\ since' = Append(since, "acquire")
    /\ fstep' = StepAfter("acquire")
    /\ acquired' = acquired + 1
    /\ UNCHANGED <<burst_size, requests_per_second>>
    /\ UNCHANGED <<fpage, is_retry, fresult, calls, sent, base_delay, delays,
                   served, sent_on, blocked, closed>>
    /\ UNCHANGED <<max_retries, client, request_count, sessions_created,
                   requests>>
    /\ UNCHANGED <<fetchVars, scrapeVars, seqVars, concVars, parserVars>>

\* self._random_delay(...) (lines 134-138): the call sleeps base seconds
\* and more, here one tick or two
ClientDelay ==
    /\ fstep = "delay"
    /\ base_delay' = BaseDelay(attempt, is_retry)
    /\ delays' = delays \cup {<<fpage = 1, attempt, BaseDelay(attempt, is_retry)>>}
    /\ \E d \in 1..2 : age' = Min2(age + d, MaxAge)
    /\ since' = Append(since, "delay")
    /\ fstep' = StepAfter("delay")
    /\ UNCHANGED <<burst_size, requests_per_second, tokens>>
    /\ UNCHANGED <<fpage, is_retry, fresult, calls, sent, served, sent_on,
                   blocked, closed>>
    /\ UNCHANGED <<clientVars, fetchVars, scrapeVars, seqVars, concVars,
                   parserVars>>

\* The try block of an attempt (lines 140-176): _get_client, client.get,
\* the count, the classification of the response and what follows from it
ClientRequest ==
    /\ fstep = "request"
    /\ requests' = requests + 1
    /\ sent' = sent + 1
    /\ since' = <<>>
    /\ sessions_created' = IF NeedNewClient THEN sessions_created + 1
                           ELSE sessions_created
    /\ LET cl == IF NeedNewClient THEN sessions_created + 1 ELSE client
           rc == IF NeedNewClient THEN 0 ELSE request_count
           sv == IF NeedNewClient THEN 0 ELSE served
           cz == IF NeedNewClient THEN closed \cup Closes(client)
                 ELSE closed
       IN
       /\ sent_on' = cl
       /\ \/ \* client.get raises httpx.HTTPError
             /\ client' = cl
             /\ request_count' = rc
             /\ served' = sv
             /\ closed' = cz
             /\ last_error' = "HTTPError"
             /\ outcomes' = outcomes \cup {"http_error"}
             /\ attempt' = NextAttempt(attempt, "http_error")
             /\ fstep' = LoopHead(NextAttempt(attempt, "http_error"))
             /\ UNCHANGED <<blocked, fresult>>
          \/ \* a response that is not returned
             \E c \in {Classify(h) : h \in Responses} \ {"ok"} :
               /\ outcomes' = outcomes \cup {c}
               /\ attempt' = NextAttempt(attempt, c)
               /\ fstep' = LoopHead(NextAttempt(attempt, c))
               /\ served' = sv + 1
               /\ UNCHANGED fresult
               /\ CASE c = "rate_limited" ->
                         /\ client' = cl
                         /\ request_count' = rc + 1
                         /\ closed' = cz
                         /\ UNCHANGED <<last_error, blocked>>
                    [] c = "http_error" ->
                         /\ client' = cl
                         /\ request_count' = rc + 1
                         /\ closed' = cz
                         /\ last_error' = "HTTPError"
                         /\ UNCHANGED blocked
                    [] c = "challenge" ->
                         /\ client' = ClientAfterChallenge(cl)
                         /\ request_count' = 0
                         /\ closed' = cz \cup Closes(cl)
                         /\ blocked' = blocked \cup {cl}
                         /\ last_error' = "ChallengePageError"
          \/ \* a response whose body is returned
             /\ \E h \in Responses : Classify(h) = "ok"
             /\ outcomes' = outcomes \cup {"ok"}
             /\ client' = cl
             /\ request_count' = rc + 1
             /\ served' = sv + 1
             /\ closed' = cz
             /\ fresult' = "html"
             /\ fstep' = "idle"
             /\ UNCHANGED <<attempt, last_error, blocked>>
    /\ UNCHANGED <<max_retries, acquired, fpage, is_retry, calls, base_delay,
                   delays>>
    /\ UNCHANGED <<scrapeVars, limVars, seqVars, concVars,
                   parserVars>>

\* fetch_page after the loop (lines 178-180)
ClientRaise ==
    /\ fstep = "exhausted"
    /\ fresult' = RaisedAfterLoop(last_error)
    /\ fstep' = "idle"
    /\ UNCHANGED <<fpage, is_retry, calls, sent, since, base_delay, delays,
                   served, sent_on, blocked, closed>>
    /\ UNCHANGED <<clientVars, fetchVars, scrapeVars, limVars, seqVars,
                   concVars,
                   parserVars>>

\* SoldListingsScraper.close, called directly or by __exit__ when the
\* with-block is left: EbayClient.close.  The block is left between two
\* fetch_page calls (scrape returned, or raised after a call), or by an
\* exception that leaves fetch_page from the limiter's sleep or from the
\* pacing delay.  The scraper is not used again.
ScraperClose ==
    /\ fstep \in {"idle", "acquire", "delay"}
    /\ closed' = closed \cup Closes(client)
    /\ client' = 0
    /\ request_count' = 0
    /\ served' = 0
    /\ fstep' = "closed"
    /\ UNCHANGED <<max_retries, sessions_created, requests, acquired>>
    /\ UNCHANGED <<fpage, is_retry, fresult, calls, sent, since, base_delay,
                   delays, sent_on, blocked>>
    /\ UNCHANGED <<fetchVars, scrapeVars, limVars, seqVars, concVars,
                   parserVars>>

NextClient ==
    \/ ClientCall
    \/ ClientAcquire
    \/ ClientDelay
    \/ ClientRequest
    \/ ClientRaise
    \/ ScraperClose

\* A client with any max_retries, its limiter full, no scrape running
InitSpecClient ==
    /\ InitScrape
    /\ ClientLimiter
    /\ max_pages = MaxPages
    /\ max_listings = <<>>

SpecClient == InitSpecClient /\ [][NextClient]_vars

\* ------------------------------------------------------------ properties
\* The ids parsed so far, as records, in the order of their first occurrence
Earlier(x, y) == x[1] < y[1] \/ (x[1] = y[1] /\ x[2] < y[2])

RECURSIVE InOrder(_)
InOrder(S) ==
    IF S = {} THEN <<>>
    ELSE LET m == CHOOSE id \in S :
                    \A o \in S \ {id} : Earlier(first_seen[id], first_seen[o])
         IN  <<[listing_id |-> m, page |-> first_seen[m][1],
                pos |-> first_seen[m][2]]>> \o InOrder(S \ {m})

Discovered == InOrder({id \in Ids : first_seen[id] # NotSeen})

\* C1: a body fetch_page returns comes from a 2xx response and matches none
\* of the block indicators of _is_challenge_page: no challenge path in the
\* final URL, no "pardon our interruption", no "captcha", and not a short
\* body without the "s-card" and "srp-results" markers.
C1_NoBlockPageReturned ==
    pc = "parse" =>
        /\ 200 <= html.status /\ html.status <= 299
        /\ ~html.url_challenge
        /\ ~html.pardon
        /\ ~html.captcha
        /\ ~(html.short /\ ~html.s_card /\ ~html.srp_results)

\* a short body with a marker, returned after an attempt that was blocked
C1_Witness ==
    /\ pc = "parse"
    /\ "challenge" \in outcomes
    /\ html.short

\* C2: in the result scrape returns no two records share a listing_id, and
\* each record is the first occurrence of its id in page order, then
\* document order.
C2_UniqueFirstKept ==
    pc = "done" =>
        /\ \A a, b \in 1..Len(all_listings) :
              a # b => all_listings[a].listing_id # all_listings[b].listing_id
        /\ \A a \in 1..Len(all_listings) :
              <<all_listings[a].page, all_listings[a].pos>>
                  = first_seen[all_listings[a].listing_id]

\* a result holding an id that was parsed on page 1 and again later
C2_Witness ==
    /\ pc = "done"
    /\ pages_scraped >= 2
    /\ \E a \in 1..Len(all_listings) :
          /\ all_listings[a].listing_id \in repeated
          /\ all_listings[a].page = 1

\* C3: with a positive cap, once the unique records parsed reach the cap the
\* call is over, the result is exactly the first max_listings records in
\* discovery order, and no page after the one that reached the cap was
\* fetched.
C3_CapTruncates ==
    (/\ max_listings # <<>>
     /\ max_listings[1] > 0
     /\ Len(Discovered) >= max_listings[1])
    =>
        /\ pc = "done"
        /\ Len(all_listings) = max_listings[1]
        /\ all_listings = SubSeq(Discovered, 1, max_listings[1])
        /\ fetch_calls = [i \in 1..page |-> i]
        /\ \E id \in Ids : first_seen[id][1] = page

\* the cap is passed in the middle of page 2, with a page still to go
C3_Witness ==
    /\ pc = "done"
    /\ max_listings # <<>>
    /\ max_listings[1] > 0
    /\ Len(Discovered) > max_listings[1]
    /\ Len(all_listings) = max_listings[1]
    /\ page = 2
    /\ all_listings[1].page = 1
    /\ max_pages > page

\* C4: a ChallengePageError from the fetch of page n ends the call at once:
\* no further fetch, records and page count as they were, all of them from
\* pages before n; and a fetch_page call whose attempts were all classified
\* as blocked raises ChallengePageError, so that a run blocked from the
\* first attempt returns 0 pages and no listings.
C4_BlockStops ==
    /\ [][(pc = "raised" /\ exc = "ChallengePageError") =>
             /\ pc' = "done"
             /\ UNCHANGED <<all_listings, pages_scraped, fetch_calls, page>>]_vars
    /\ [](pc = "raised" /\ attempt = max_retries /\ outcomes \subseteq {"challenge"}
             => exc = "ChallengePageError")
    /\ [](pc = "done" /\ exc = "ChallengePageError" =>
             /\ Len(fetch_calls) = page
             /\ pages_scraped < page
             /\ \A a \in 1..Len(all_listings) : all_listings[a].page < page
             /\ (page = 1 => pages_scraped = 0 /\ all_listings = <<>>))

\* blocked on page 2, the records of page 1 returned
C4_Witness ==
    /\ pc = "done"
    /\ exc = "ChallengePageError"
    /\ page = 2
    /\ max_pages > 2
    /\ pages_scraped = 1
    /\ Len(all_listings) > 0

\* C5: when the fetch of page n < max_pages fails with an error that is not
\* a block, the next thing scrape does is fetch page n + 1, with records,
\* seen ids and page count untouched.
C5_ErrorSkipsPage ==
    [][(pc = "raised" /\ exc = "HTTPError" /\ page < max_pages) =>
          /\ pc' = "fetch"
          /\ attempt' = 0
          /\ page' = page + 1
          /\ fetch_calls' = Append(fetch_calls, page + 1)
          /\ UNCHANGED <<all_listings, seen_ids, pages_scraped>>]_vars

\* page 1 gave records, page 2 failed with an HTTP error, page 3 is fetched
C5_Witness ==
    /\ pc = "fetch"
    /\ attempt = 0
    /\ exc = "HTTPError"
    /\ page = 3
    /\ pages_scraped = 1
    /\ Len(all_listings) > 0

\* C6: when fetch_page gives up after attempts among which one was blocked
\* and one failed with a transport or HTTP error, it raises
\* ChallengePageError.
C6_BlockTakesPrecedence ==
    (/\ pc = "raised"
     /\ attempt = max_retries
     /\ "challenge" \in outcomes
     /\ "http_error" \in outcomes)
    => exc = "ChallengePageError"

\* C8, as stated: whatever the rate, the token count stays within
\* 0 .. burst_size.
C8_TokensInRange ==
    /\ 0 <= tokens
    /\ tokens <= burst_size * Grain

\* C8, amended: with burst_size >= 1 and requests_per_second >= 0 the token
\* count of a limiter used by one sequential caller stays within
\* 0 .. burst_size.
C8_TokensInRangeRateNotNegative ==
    requests_per_second >= 0 =>
        /\ 0 <= tokens
        /\ tokens <= burst_size * Grain

\* the bucket emptied by acquisitions and filled to the brim again
C8_Witness ==
    /\ requests_per_second > 0
    /\ Len(acq_ages) >= burst_size
    /\ tokens = burst_size * Grain
    /\ lpc = "idle"

\* C9: among the acquisitions of one sequential caller, any m of them that
\* lie in a window of W ticks satisfy m <= burst_size + W * rate (windows
\* shorter than MaxAge are measured exactly); with burst_size = 1 two
\* acquisitions in a row are at least 1 / rate apart.
C9_RateBound ==
    /\ \A m \in 1..Len(acq_ages) :
          acq_ages[m] < MaxAge =>
              m * Grain <= burst_size * Grain
                           + (acq_ages[m] - acq_ages[1]) * requests_per_second
    /\ (burst_size = 1 /\ Len(acq_ages) >= 2 /\ acq_ages[2] < MaxAge) =>
          (acq_ages[2] - acq_ages[1]) * requests_per_second >= Grain

\* the burst spent at once and one more token acquired after a wait
C9_Witness ==
    /\ Len(acq_ages) = burst_size + 1
    /\ acq_ages[Len(acq_ages)] < MaxAge
    /\ acq_ages[burst_size] = acq_ages[Len(acq_ages)]
    /\ requests_per_second = 1

\* C7: with coroutines in acquire and threads in acquire_sync on one
\* limiter, at most one caller at a time is between the refill and the end
\* of its decrement, and the token count is never below 0.
InSection(p) == cpc[p] \in {"check", "load", "store"}

C7_MutualExclusion ==
    /\ tokens >= 0
    /\ \A p, q \in Procs : (InSection(p) /\ InSection(q)) => p = q

\* C10: with a rate above 0 and burst_size >= 1, a coroutine that waits in
\* acquire, for the lock or asleep with it, eventually has its token and
\* has returned.
C10_NoStarvation ==
    \A p \in Coros : (cpc[p] \in {"waiting", "sleeping"}) ~> (cpc[p] = "done")

\* every coroutine has returned, one of them after queueing for the lock
\* behind a sleeping holder
C10_Witness ==
    /\ \A p \in Coros : cpc[p] = "done"
    /\ waited # {}

\* C11: one fetch_page call sends at most max_retries requests; an attempt
\* answered with 429, with a block page, with an error status or with a
\* transport error uses up one of the max_retries attempts whichever it
\* was, and with the attempts used up the call raises without a further
\* request.
C11_RequestsBounded ==
    /\ [](sent <= max_retries)
    /\ [][(fstep = "request" /\ fstep' # "idle") =>
             /\ attempt' = attempt + 1
             /\ sent' = attempt + 1]_vars
    /\ [][(fstep # "idle" /\ attempt >= max_retries) =>
             /\ fstep' = "idle"
             /\ fresult' \in {"ChallengePageError", "HTTPError"}
             /\ requests' = requests]_vars

\* a call that gave up after a 429 and a block page, two requests sent
C11_Witness ==
    /\ fstep = "idle"
    /\ fresult = "ChallengePageError"
    /\ max_retries = 2
    /\ sent = 2
    /\ outcomes = {"rate_limited", "challenge"}

\* C12, as stated: no exception of class Exception leaves scrape, and the
\* listings of the result are exactly the deduplicated records of the pages
\* that were fetched and parsed.
C12_ReturnsAllCollected ==
    /\ (pc = "propagated" => exc = "KeyboardInterrupt")
    /\ (pc = "done" => all_listings = Discovered)

\* C12, amended: no exception of class Exception leaves scrape, whatever
\* the pages' outcomes; the listings of the result are the deduplicated
\* records of the pages that were fetched and parsed, cut to the first
\* max_listings of them when that cap ended the run, and pages_scraped
\* counts those pages.
C12_ReturnsCollectedUpToCap ==
    /\ (pc = "propagated" => exc = "KeyboardInterrupt")
    /\ (pc = "done" =>
          /\ all_listings =
                IF CapReached(max_listings, Len(Discovered))
                THEN SubSeq(Discovered, 1, max_listings[1])
                ELSE Discovered
          /\ pages_scraped <= page
          /\ \A a \in 1..Len(all_listings) : all_listings[a].page <= page)

\* page 1 failed, page 2 gave records, page 3 did not parse: the result
\* holds the records of page 2
C12_Witness ==
    /\ pc = "done"
    /\ page = 3
    /\ exc = "Exception"
    /\ pages_scraped = 1
    /\ all_listings # <<>>
    /\ all_listings[1].page = 2

\* C13: the pages fetch_sold_listings is called for are strictly
\* increasing, so no page is requested twice in one scrape call; in the
\* listings collected the page of origin never decreases, and records of one
\* page stand in the order the parser returned them.
C13_PageAndDocumentOrder ==
    /\ \A i, j \in 1..Len(fetch_calls) :
          i < j => fetch_calls[i] < fetch_calls[j]
    /\ \A a, b \in 1..Len(all_listings) :
          a < b =>
             \/ all_listings[a].page < all_listings[b].page
             \/ /\ all_listings[a].page = all_listings[b].page
                /\ all_listings[a].pos < all_listings[b].pos

\* a result with two records of one page followed by a record of a later one
C13_Witness ==
    /\ pc = "done"
    /\ Len(fetch_calls) = 3
    /\ Len(all_listings) = 3
    /\ all_listings[1].page = all_listings[2].page
    /\ all_listings[2].page < all_listings[3].page

\* C14: every record of a result carries one and the same scraped_at, and it
\* is the scraped_at of the result itself, also for records of different
\* pages.
C14_OneTimestamp ==
    pc = "done" =>
        \A a \in 1..Len(all_listings) :
            /\ stamped[all_listings[a].page] = scraped_at
            /\ \A b \in 1..Len(all_listings) :
                  stamped[all_listings[a].page] = stamped[all_listings[b].page]

\* C15: a call the caller has interrupted between two pages ends with a
\* ScrapeResult (holding what was accumulated), not with the exception.
C15_AbortReturnsPartial ==
    exc = "KeyboardInterrupt" => pc \in {"raised", "done"}

\* C16: the records parse_listings returns are those of the items that have
\* an id, a title that is neither empty nor the placeholder, a URL, a text
\* node starting with "Sold" and a price that parses, in page order: no
\* record for an item that lacks one of them, and the records of the other
\* items whatever items stand beside them.
Complete(item) ==
    /\ item.id
    /\ item.title = "text"
    /\ item.url
    /\ item.sold = "starts"
    /\ item.price = "number"
    /\ ~item.raises

RECURSIVE Kept(_, _)
Kept(its, k) ==
    IF k > Len(its) THEN <<>>
    ELSE (IF Complete(its[k]) THEN <<k>> ELSE <<>>) \o Kept(its, k + 1)

C16_OnlyCompleteItems ==
    ppc = "returned" =>
        [n \in 1..Len(parsed_listings) |-> parsed_listings[n].pos]
            = Kept(items, 1)

\* an item without the sold marker, then a complete one, which is returned
C16_Witness ==
    /\ ppc = "returned"
    /\ Len(items) = 2
    /\ items[1].sold = "inside"
    /\ items[1].id /\ items[1].url /\ items[1].price = "number"
    /\ items[1].title = "text"
    /\ Len(parsed_listings) = 1
    /\ parsed_listings[1].pos = 2

\* C17: when fetch_page is about to send a request, what it has done since
\* the previous request of the call (or since the call began) is one
\* acquire_sync and then one _random_delay, nothing else; and the limiter
\* holds a token less than its capacity, the one taken for this request.
C17_TokenThenDelayThenRequest ==
    /\ [](fstep = "request" =>
             /\ since = <<"acquire", "delay">>
             /\ tokens + Grain <= burst_size * Grain)
    /\ [][requests' # requests =>
             /\ fstep = "request"
             /\ requests' = requests + 1
             /\ since' = <<>>]_vars

\* the second request of a call, about to be sent
C17_Witness ==
    /\ fstep = "request"
    /\ attempt = 1
    /\ sent = 1
    /\ since = <<"acquire", "delay">>

\* C18: among the pacing delays made, each <<on the first page, attempt, base>>,
\* the base does not decrease as the attempt index grows, and both the base
\* of a retry attempt and the base of the first attempt on the first page are
\* strictly larger than the base of the first attempt on a later page.
C18_DelayBaseOrdering ==
    \A d, e \in delays :
        /\ (d[1] = e[1] /\ d[2] <= e[2]) => d[3] <= e[3]
        /\ (d[2] > 0 /\ ~e[1] /\ e[2] = 0) => d[3] > e[3]
        /\ (d[1] /\ d[2] = 0 /\ ~e[1] /\ e[2] = 0) => d[3] > e[3]

\* C19: a session that received a challenge page has been closed and is no
\* longer the client's session; every request goes out on a session that
\* was neither blocked nor closed, and the request after a blocked one on a
\* session created for it.
C19_BlockedSessionDiscarded ==
    /\ [](blocked \subseteq closed /\ client \notin blocked)
    /\ [][requests' # requests =>
             /\ sent_on' \notin blocked
             /\ sent_on' \notin closed
             /\ (sent_on \in blocked =>
                    /\ sessions_created' = sessions_created + 1
                    /\ sent_on' = sessions_created')]_vars

\* session 1 was blocked in the first call, the second call uses session 2
C19_Witness ==
    /\ blocked = {1}
    /\ calls = 2
    /\ sent = 1
    /\ sent_on = 2

\* C20: no session object receives more than 5 responses; the request after
\* a session's fifth response goes out on a new session, the old one closed.
C20_SessionServesAtMostFive ==
    /\ [](served <= RotateAfter)
    /\ [][(requests' # requests /\ client # 0 /\ served = RotateAfter) =>
             /\ sessions_created' = sessions_created + 1
             /\ sent_on' = sessions_created'
             /\ client \in closed']_vars

\* session 1 answered five requests, none with a block page, and was
\* replaced by session 2 for the sixth
C20_Witness ==
    /\ blocked = {}
    /\ closed = {1}
    /\ sent_on = 2
    /\ requests >= RotateAfter + 1

\* C21: pages_scraped is the number of pages whose fetch returned a body
\* (2xx, no block indicator) that parse_listings then extracted; it changes
\* by one, at that point only, so a page whose fetch raised is not counted;
\* it never exceeds the number of loop iterations, which never exceeds
\* max_pages.
C21_PagesScrapedCountsExtracted ==
    /\ [](/\ pages_scraped = Cardinality(extracted)
          /\ extracted \subseteq 1..page
          /\ pages_scraped <= Len(fetch_calls)
          /\ Len(fetch_calls) <= max_pages)
    /\ [][pages_scraped' # pages_scraped =>
             /\ pc = "parse"
             /\ html.status = 200
             /\ ~IsChallengePage(html)
             /\ pages_scraped' = pages_scraped + 1
             /\ extracted' = extracted \cup {page}]_vars
    /\ [][(pc \in {"fetch", "raised"}) =>
             pages_scraped' = pages_scraped]_vars

\* three iterations, only page 2 extracted: page 3's fetch raised an HTTP
\* error
C21_Witness ==
    /\ pc = "done"
    /\ page = 3
    /\ exc = "HTTPError"
    /\ extracted = {2}
    /\ pages_scraped = 1

\* C22: with the explicit cap max_listings = 0 the finished run returns no
\* record and has stopped at the first page it extracted.
C22_ZeroCapReturnsNothing ==
    (max_listings = <<0>> /\ pc = "done") =>
        (all_listings = <<>> /\ pages_scraped <= 1)

\* C23: at a rate above 0 a call of acquire_sync or acquire by a lone caller
\* always returns, without raising, after at most one sleep: the sleep it
\* starts lasts at least one tick and long enough for the refill to reach a
\* whole token, the loop runs its next iteration only when the sleep is
\* over, and that iteration takes the token and returns.
C23_ReturnsAfterOneSleep ==
    /\ [](requests_per_second > 0 =>
            /\ lerr = "None"
            /\ lpc # "idle" =>
                  /\ need >= 1
                  /\ tokens + need * requests_per_second >= Grain)
    /\ [][(requests_per_second > 0 /\ lpc # "idle" /\ age' = 0) =>
             /\ age >= need
             /\ Refilled(tokens, age, requests_per_second, burst_size)
                    >= Grain
             /\ lpc' = "idle"
             /\ lerr' = "None"]_vars
    /\ ((requests_per_second > 0 /\ lpc # "idle") ~> (lpc = "idle"))

\* a call that found half a token at rate 1 has slept its two ticks and is
\* about to check again
C23_Witness ==
    /\ requests_per_second = 1
    /\ lpc = "sleep_sync"
    /\ tokens = 0
    /\ need = 2
    /\ age >= need

\* C24: at most one session object is open at any time, and it is the
\* client's current one; a new session is created only with every earlier
\* one closed; and once the scraper is closed no session is open.
C24_OneSessionNoneAfterClose ==
    /\ [](Cardinality(Open) <= 1 /\ Open \subseteq {client})
    /\ [][sessions_created' # sessions_created =>
             1..sessions_created \subseteq closed']_vars
    /\ [](fstep = "closed" => Open = {})

\* session 1 was closed after a block page, session 2 by the close of the
\* scraper, in the middle of a call
C24_Witness ==
    /\ fstep = "closed"
    /\ blocked = {1}
    /\ closed = {1, 2}
    /\ sent = 1
    /\ attempt = 1

\* C25, as stated: has_next_page returns true exactly when a next control
\* that is not disabled is present or the page has more than one pagination
\* entry.
C25_NextOrPagination ==
    ppc = "has_next_page" =>
        (has_next <=>
            \/ \E i \in 1..Len(anchors) :
                  anchors[i].next /\ ~anchors[i].disabled
            \/ Cardinality({i \in 1..Len(anchors) : anchors[i].entry}) > 1)

\* C25, amended: has_next_page returns true exactly when the first next
\* control of the page is not disabled, or the page has no next control and
\* has more than one pagination entry.
C25_NextElsePagination ==
    ppc = "has_next_page" =>
        (has_next <=>
            \/ \E i \in 1..Len(anchors) :
                  /\ anchors[i].next
                  /\ ~anchors[i].disabled
                  /\ \A j \in 1..(i - 1) : ~anchors[j].next
            \/ /\ \A i \in 1..Len(anchors) : ~anchors[i].next
               /\ Cardinality({i \in 1..Len(anchors) : anchors[i].entry}) > 1)

\* a last page: two pagination entries and a disabled next control, no
\* next page reported
C25_Witness ==
    /\ ppc = "has_next_page"
    /\ Len(anchors) = 3
    /\ anchors[1].entry /\ ~anchors[1].next
    /\ anchors[2].entry /\ ~anchors[2].next
    /\ anchors[3].next /\ anchors[3].disabled
    /\ ~has_next

\* C26: a fetch_page call whose attempts were all answered with 429, or
\* that had no attempt to make (max_retries = 0), raises ChallengePageError
\* unless the call is interrupted; and on ChallengePageError scrape ends
\* the run there, with no further page fetched.
C26_All429StopsRun ==
    /\ [][(/\ pc = "fetch"
           /\ attempt >= max_retries
           /\ outcomes \subseteq {"rate_limited"}
           /\ exc' # "KeyboardInterrupt") =>
             (pc' = "raised" /\ exc' = "ChallengePageError")]_vars
    /\ [][(pc = "raised" /\ exc = "ChallengePageError") =>
             /\ pc' = "done"
             /\ page' = page
             /\ fetch_calls' = fetch_calls]_vars

\* page 1 of 3 got two responses on one session that was never dropped,
\* so two 429s: the run ended there on ChallengePageError
C26_Witness ==
    /\ pc = "done"
    /\ exc = "ChallengePageError"
    /\ max_pages = 3
    /\ fetch_calls = <<1>>
    /\ max_retries = 2
    /\ requests = 2
    /\ request_count = 2

\* C27: every scrape call ends, by returning or by an exception that leaves
\* it; it makes at most max_pages fetch_sold_listings calls, sends at most
\* max_pages * max_retries requests and takes at most that many tokens.
C27_ScrapeTerminates ==
    /\ [](/\ Len(fetch_calls) <= max_pages
          /\ requests <= Len(fetch_calls) * max_retries
          /\ requests <= max_pages * max_retries
          /\ acquired <= max_pages * max_retries)
    /\ <>(pc \in {"done", "propagated"})

\* a finished call that used everything it may: three pages, two requests
\* and two tokens for each
C27_Witness ==
    /\ pc = "done"
    /\ max_pages = 3
    /\ max_retries = 2
    /\ fetch_calls = <<1, 2, 3>>
    /\ requests = 6
    /\ acquired = 6

====
